---- MODULE Spec2Model ----
(***************************************************************************)
(* portainer-deploy.py: one process run authenticates against Portainer,   *)
(* resolves the endpoint and swarm ids, lists the stacks and then creates, *)
(* updates or removes one stack.  The model follows deploy() statement by  *)
(* statement; every blocking HTTP call is two steps (the request is sent,  *)
(* the response is handled).  The process can be started again against the *)
(* same server (NewRun), as a pipeline does.                               *)
(***************************************************************************)
EXTENDS Integers, Sequences, FiniteSets, TLC

VARIABLES
    argv,         \* sys.argv of the running process (argv[1] is the script name)
    env,          \* the process environment: variable name -> value or NONE
    remove,       \* self.remove
    parameters,   \* self.parameters
    pc,           \* the statement of deploy() the process is at
    exitCode,     \* the process exit code, -1 while it runs
    token,        \* deploy(): token
    endpoint_id,  \* deploy(): endpoint_id
    swarm_id,     \* deploy(): swarm_id
    stacks,       \* deploy(): stacks  (name -> id)
    listing,      \* the JSON array the stack listing call answered
    calls,        \* the HTTP requests of this run, in order, each with its answer
    log,          \* the records written through self.log
    stderr,       \* the traceback of an uncaught exception
    srv,          \* the server's stacks: a sequence of [Name, Id]
    run,          \* how many times the process has been started
    prev          \* what the previous run did

vars == <<argv, env, remove, parameters, pc, exitCode, token, endpoint_id,
          swarm_id, stacks, listing, calls, log, stderr, srv, run, prev>>

-----------------------------------------------------------------------------
(* Bounds and value sets *)

MaxRuns == 2

NONE == "<None>"          \* Python's None

SCRIPT == "portainer-deploy.py"

Argvs == { <<SCRIPT>>,
           <<SCRIPT, "--remove">>,
           <<SCRIPT, "--delete">>,
           <<SCRIPT, "--remove", "--remove">> }

AllParameters == {"PORTAINER_URL", "PORTAINER_USERNAME", "PORTAINER_PASSWORD",
                  "STACK_NAME", "COMPOSE_CONTENT"}

EnvValues(var) ==
    CASE var = "PORTAINER_URL"      -> {NONE, "", "https://portainer"}
      [] var = "PORTAINER_USERNAME" -> {NONE, "admin"}
      [] var = "PORTAINER_PASSWORD" -> {NONE, "", "secret"}
      [] var = "STACK_NAME"         -> {NONE, "", "web"}
      [] var = "COMPOSE_CONTENT"    -> {NONE, "", "services: {}"}

Envs == { e \in [AllParameters -> {NONE, "", "https://portainer", "admin",
                                   "secret", "web", "services: {}"}] :
            \A v \in AllParameters : e[v] \in EnvValues(v) }

Tokens == {"jwtA", "jwtB"}

EndpointLists == { <<>>, <<1>>, <<2, 1>> }

SrvInits == { <<>>,
              <<[Name |-> "db", Id |-> 1]>>,
              <<[Name |-> "web", Id |-> 2]>>,
              <<[Name |-> "db", Id |-> 1], [Name |-> "web", Id |-> 2]>> }

\* The answers a server can give: a status and a body that parses as JSON,
\* does not parse, or is empty (204 carries no body).  300 stands for the
\* statuses that are neither 2xx nor an error: requests hands such a response
\* to the caller when it has no Location to follow.
Responses ==
    { [status |-> s, body |-> b] : s \in {200, 404, 500}, b \in {"json", "text"} }
    \cup { [status |-> 204, body |-> "empty"], [status |-> 300, body |-> "json"] }

-----------------------------------------------------------------------------
(* Helpers *)

\* str(v) as an f-string formats it
Str(v) == IF v = NONE THEN "None" ELSE v

getenv(var) == env[var]

portainer_url == env["PORTAINER_URL"]
portainer_username == env["PORTAINER_USERNAME"]
portainer_password == env["PORTAINER_PASSWORD"]
stack_name == env["STACK_NAME"]
compose_content == env["COMPOSE_CONTENT"]
portainer_endpoint == Str(portainer_url) \o "/api"

\* One record of self.log: the level, the message, and what the message
\* interpolates: a variable or stack name, a response body.  No message of the
\* program interpolates an HTTP status, so status is 0 in every record.
LogRec(level, msg, var, body) ==
    [level |-> level, msg |-> msg, var |-> var, status |-> 0, body |-> body]

\* What the interpreter prints for an uncaught exception: the exception and,
\* for requests' HTTPError, the status its message names ("404 Client Error:
\* ... for url: ..."); the response body is not part of it.
Traceback(exc, status) == [exc |-> exc, status |-> status, body |-> NONE]

\* One HTTP request.  status = 0 until the response has arrived; jwt and items
\* are what the response body holds for the program: the "jwt" entry of the
\* authentication answer, the length of a JSON array (-1: no array).
Request(kind, tok, ep, id, name, content, swarm, prune, user, pass) ==
    [kind |-> kind, url |-> portainer_endpoint, token |-> tok, endpoint |-> ep,
     id |-> id, name |-> name, content |-> content, swarm |-> swarm,
     prune |-> prune, username |-> user, password |-> pass,
     status |-> 0, body |-> NONE, jwt |-> NONE, items |-> -1]

LastCall == calls[Len(calls)]

\* calls with the response r, and what its body holds, recorded on the request
\* in flight
AnsweredWith(r, jwt, items) ==
    [calls EXCEPT ![Len(calls)] = [@ EXCEPT !.status = r.status, !.body = r.body,
                                            !.jwt = jwt, !.items = items]]

\* calls with the response r recorded on the request in flight
Answered(r) == AnsweredWith(r, NONE, -1)

Mutating == {"create", "update", "delete"}
IsMutating(c) == c.kind \in Mutating

IsSuccess(status) == status >= 200 /\ status < 300

\* The server answers 4xx or 5xx: the body is an error message, not the
\* resource asked for
IsErrorAnswer(r) == r.status >= 400

-----------------------------------------------------------------------------
(* The server *)

SrvIds(s) == { s[i].Id : i \in DOMAIN s }
SrvNames(s) == { s[i].Name : i \in DOMAIN s }

NextId(s) ==
    IF s = <<>> THEN 1
    ELSE 1 + (CHOOSE m \in SrvIds(s) : \A k \in SrvIds(s) : k <= m)

\* The swarm the endpoint belongs to
SwarmOf(ep) == IF ep = 1 THEN "swarm-1" ELSE "swarm-2"

\* The server's stacks after it answered request c with `status`: a create or
\* a delete it answered 2xx has taken effect, an update keeps name and id.
ServerApply(s, c, status) ==
    IF ~IsSuccess(status) THEN s
    ELSE IF c.kind = "create"
         THEN Append(s, [Name |-> c.name, Id |-> NextId(s)])
    ELSE IF c.kind = "delete"
         THEN SelectSeq(s, LAMBDA st : st.Id # c.id)
    ELSE s

-----------------------------------------------------------------------------
(* Pure parts of the program *)

\* Variant: the value of the single argument is not looked at.
UsageError_CountOnly(a) == Len(a) > 2

\* deploy(): the command line is neither empty nor exactly --remove
UsageError(a) ==
    \/ Len(a) > 2
    \/ Len(a) = 2 /\ a[2] # "--remove"

\* validate_environment(): the parameters to check
RequiredParameters(params, rm) ==
    IF rm THEN params \ {"COMPOSE_CONTENT"} ELSE params

\* Variant: a variable counts as missing when it is empty, not when it is unset.
MissingParameters_EmptyOnly(params) == { var \in params : getenv(var) = "" }

\* validate_environment(): the parameters whose variable is not set
MissingParameters(params) == { var \in params : getenv(var) = NONE }

\* Variant: only server errors raise.
raise_for_status_5xxOnly(status) == status >= 500 /\ status < 600

\* Response.raise_for_status(): raises HTTPError for 4xx and 5xx
raise_for_status(status) == status >= 400 /\ status < 600

\* requests' PreparedRequest.prepare_url(): the scheme of a URL, "" when it has
\* none (the URLs of this model are "https://portainer/api" and "/api")
scheme(url) == IF url = "https://portainer/api" THEN "https" ELSE ""

\* Session.request() raises MissingSchema, before anything is sent, for a URL
\* without a scheme
missing_schema(url) == scheme(url) = ""

\* Response.json() raises when the body is not JSON
json_fails(r) == r.body # "json"

EmptyDict == [n \in {} |-> [id |-> 0]]

\* get_stacks(): {stack["Name"]: {"id": stack["Id"]} for stack in response.json()}
\* (a later entry of the same name replaces an earlier one)
StackDict(l) ==
    [n \in { l[i].Name : i \in DOMAIN l } |->
        LET last == CHOOSE i \in DOMAIN l :
                        /\ l[i].Name = n
                        /\ \A j \in DOMAIN l : l[j].Name = n => j <= i
        IN [id |-> l[last].Id]]

\* Variant: the remove flag is not looked at.
Branch_IgnoresRemove(rm, name, dict) ==
    IF name \in DOMAIN dict THEN "update_stack" ELSE "create_stack"

\* deploy(): which of the three operations is called
Branch(rm, name, dict) ==
    IF rm THEN "remove_stack"
    ELSE IF name \in DOMAIN dict THEN "update_stack"
    ELSE "create_stack"

\* Variant: the branches are not exclusive, create_stack() follows update_stack().
AfterUpdate_FallThrough == "create_stack"

\* deploy(): the statement after update_stack() / create_stack() returned
AfterUpdate == "completed"
AfterCreate == "completed"

\* Variant: the missing stack is reported but the process exits 0.
NotDeployedExit_Zero == 1 - 1

\* remove_stack(): the exit code when the stack is not deployed
NotDeployedExit == 1

\* Variant: the request has no Authorization header.
DeleteRequest_NoToken(tok, stack_info, ep) ==
    Request("delete", NONE, ep, stack_info.id, NONE, NONE, NONE, FALSE, NONE, NONE)

\* Variant: the stack id and the endpoint id change places in the URL.
DeleteRequest_Swapped(tok, stack_info, ep) ==
    Request("delete", tok, stack_info.id, ep, NONE, NONE, NONE, FALSE, NONE, NONE)

\* remove_stack(): DELETE /stacks/{id}?endpointId={endpoint_id}
DeleteRequest(tok, stack_info, ep) ==
    Request("delete", tok, ep, stack_info.id, NONE, NONE, NONE, FALSE, NONE, NONE)

\* Variant: the endpoint id is used as the stack id and the stack id as the
\* endpoint id.
UpdateRequest_Swapped(tok, stack_info, ep, swarm) ==
    Request("update", tok, stack_info.id, ep, stack_name, compose_content, swarm,
            TRUE, NONE, NONE)

\* Variant: the payload has no Prune entry.
UpdateRequest_NoPrune(tok, stack_info, ep, swarm) ==
    Request("update", tok, ep, stack_info.id, stack_name, compose_content, swarm,
            FALSE, NONE, NONE)

\* update_stack(): PUT /stacks/{id}?endpointId={endpoint_id} with Name, SwarmID,
\* StackFileContent and Prune
UpdateRequest(tok, stack_info, ep, swarm) ==
    Request("update", tok, ep, stack_info.id, stack_name, compose_content, swarm,
            TRUE, NONE, NONE)

\* Variant: the payload has no SwarmID entry.
CreateRequest_NoSwarm(tok, ep, swarm) ==
    Request("create", tok, ep, 0, stack_name, compose_content, NONE, FALSE,
            NONE, NONE)

\* create_stack(): POST /stacks?type=1&method=string&endpointId={endpoint_id}
\* with Name, StackFileContent and SwarmID
CreateRequest(tok, ep, swarm) ==
    Request("create", tok, ep, 0, stack_name, compose_content, swarm, FALSE,
            NONE, NONE)

-----------------------------------------------------------------------------
(* Process start *)

NoPrev == [remove |-> FALSE, exitCode |-> -1, kind |-> "none", id |-> 0,
           status |-> 0]

Init ==
    /\ argv \in Argvs
    /\ env \in Envs
    /\ srv \in SrvInits
    /\ remove = FALSE
    /\ parameters = AllParameters
    /\ pc = "deploy"
    /\ exitCode = -1
    /\ token = NONE
    /\ endpoint_id = 0
    /\ swarm_id = NONE
    /\ stacks = EmptyDict
    /\ listing = <<>>
    /\ calls = <<>>
    /\ log = <<>>
    /\ stderr = <<>>
    /\ run = 1
    /\ prev = NoPrev

\* sys.exit(code), or the return of main()
Exit(code) ==
    /\ pc' = "exit"
    /\ exitCode' = code

\* An exception nobody catches: the traceback is printed and the exit code is 1
Uncaught(exc, status) ==
    /\ stderr' = Append(stderr, Traceback(exc, status))
    /\ Exit(1)

-----------------------------------------------------------------------------
(* deploy() *)

deploy_start ==
    /\ pc = "deploy"
    /\ IF UsageError(argv)
       THEN /\ log' = log \o << LogRec("INFO", "Swarm deployment process started...", NONE, NONE),
                               LogRec("CRITICAL", "Only the '--remove' argument is allowed", NONE, NONE) >>
            /\ Exit(1)
            /\ UNCHANGED remove
       ELSE /\ log' = Append(log, LogRec("INFO", "Swarm deployment process started...", NONE, NONE))
            /\ remove' = (Len(argv) = 2)
            /\ pc' = "validate_environment"
            /\ UNCHANGED exitCode
    /\ UNCHANGED <<argv, env, parameters, token, endpoint_id, swarm_id, stacks,
                   listing, calls, stderr, srv, run, prev>>

validate_environment ==
    /\ pc = "validate_environment"
    /\ parameters' = RequiredParameters(parameters, remove)
    /\ LET missing == MissingParameters(parameters')
       IN IF missing = {}
          THEN /\ pc' = "get_portainer_token"
               /\ UNCHANGED <<log, exitCode>>
          ELSE \* the set is iterated in no fixed order: the first missing
               \* variable met is reported and the process exits
               \E var \in missing :
                  /\ log' = Append(log, LogRec("CRITICAL", "must be set as an environment variable!", var, NONE))
                  /\ Exit(1)
    /\ UNCHANGED <<argv, env, remove, token, endpoint_id, swarm_id, stacks,
                   listing, calls, stderr, srv, run, prev>>

-----------------------------------------------------------------------------
(* The four read calls *)

get_portainer_token ==
    /\ pc = "get_portainer_token"
    /\ log' = Append(log, LogRec("INFO", "Getting JWT token...", NONE, NONE))
    /\ IF missing_schema(portainer_endpoint)
       THEN /\ Uncaught("MissingSchema", 0)
            /\ UNCHANGED calls
       ELSE /\ calls' = Append(calls, Request("auth", NONE, 0, 0, NONE, NONE, NONE,
                                              FALSE, portainer_username,
                                              portainer_password))
            /\ pc' = "auth_wait"
            /\ UNCHANGED <<exitCode, stderr>>
    /\ UNCHANGED <<argv, env, remove, parameters, token, endpoint_id,
                   swarm_id, stacks, listing, srv, run, prev>>

get_portainer_token_ret ==
    /\ pc = "auth_wait"
    /\ \E r \in Responses, jwt \in Tokens :
          /\ calls' = IF r.body = "json" /\ ~IsErrorAnswer(r)
                       THEN AnsweredWith(r, jwt, -1) ELSE Answered(r)
          /\ IF raise_for_status(r.status)
             THEN Uncaught("HTTPError", r.status) /\ UNCHANGED token
             ELSE IF json_fails(r)
             THEN Uncaught("JSONDecodeError", 0) /\ UNCHANGED token
             ELSE /\ token' = jwt
                  /\ pc' = "get_endpoint_id"
                  /\ UNCHANGED <<exitCode, stderr>>
    /\ UNCHANGED <<argv, env, remove, parameters, endpoint_id, swarm_id, stacks,
                   listing, log, srv, run, prev>>

get_endpoint_id ==
    /\ pc = "get_endpoint_id"
    /\ calls' = Append(calls, Request("endpoints", token, 0, 0, NONE, NONE, NONE,
                                      FALSE, NONE, NONE))
    /\ pc' = "endpoints_wait"
    /\ UNCHANGED <<argv, env, remove, parameters, exitCode, token, endpoint_id,
                   swarm_id, stacks, listing, log, stderr, srv, run, prev>>

\* Variant: an empty list of endpoints is answered by assuming endpoint 1.
get_endpoint_id_ret_DefaultEndpoint ==
    /\ pc = "endpoints_wait"
    /\ \E r \in Responses, eps \in EndpointLists :
          /\ calls' = IF r.body = "json" /\ ~IsErrorAnswer(r)
                       THEN AnsweredWith(r, NONE, Len(eps)) ELSE Answered(r)
          /\ IF raise_for_status(r.status)
             THEN Uncaught("HTTPError", r.status) /\ UNCHANGED endpoint_id
             ELSE IF json_fails(r)
             THEN Uncaught("JSONDecodeError", 0) /\ UNCHANGED endpoint_id
             ELSE /\ endpoint_id' = IF eps = <<>> THEN 1 ELSE eps[1]
                  /\ pc' = "get_swarm_id"
                  /\ UNCHANGED <<exitCode, stderr>>
    /\ UNCHANGED <<argv, env, remove, parameters, token, swarm_id, stacks,
                   listing, log, srv, run, prev>>

get_endpoint_id_ret ==
    /\ pc = "endpoints_wait"
    /\ \E r \in Responses, eps \in EndpointLists :
          /\ calls' = IF r.body = "json" /\ ~IsErrorAnswer(r)
                       THEN AnsweredWith(r, NONE, Len(eps)) ELSE Answered(r)
          /\ IF raise_for_status(r.status)
             THEN Uncaught("HTTPError", r.status) /\ UNCHANGED endpoint_id
             ELSE IF json_fails(r)
             THEN Uncaught("JSONDecodeError", 0) /\ UNCHANGED endpoint_id
             ELSE IF eps = <<>>
             THEN \* response.json()[0] of an empty list
                  Uncaught("IndexError", 0) /\ UNCHANGED endpoint_id
             ELSE /\ endpoint_id' = eps[1]
                  /\ pc' = "get_swarm_id"
                  /\ UNCHANGED <<exitCode, stderr>>
    /\ UNCHANGED <<argv, env, remove, parameters, token, swarm_id, stacks,
                   listing, log, srv, run, prev>>

get_swarm_id ==
    /\ pc = "get_swarm_id"
    /\ calls' = Append(calls, Request("swarm", token, endpoint_id, 0, NONE, NONE,
                                      NONE, FALSE, NONE, NONE))
    /\ pc' = "swarm_wait"
    /\ UNCHANGED <<argv, env, remove, parameters, exitCode, token, endpoint_id,
                   swarm_id, stacks, listing, log, stderr, srv, run, prev>>

get_swarm_id_ret ==
    /\ pc = "swarm_wait"
    /\ \E r \in Responses :
          /\ calls' = Answered(r)
          /\ IF raise_for_status(r.status)
             THEN Uncaught("HTTPError", r.status) /\ UNCHANGED swarm_id
             ELSE IF json_fails(r)
             THEN Uncaught("JSONDecodeError", 0) /\ UNCHANGED swarm_id
             ELSE /\ swarm_id' = SwarmOf(LastCall.endpoint)
                  /\ pc' = "get_stacks"
                  /\ UNCHANGED <<exitCode, stderr>>
    /\ UNCHANGED <<argv, env, remove, parameters, token, endpoint_id, stacks,
                   listing, log, srv, run, prev>>

get_stacks ==
    /\ pc = "get_stacks"
    /\ calls' = Append(calls, Request("stacks", token, endpoint_id, 0, NONE, NONE,
                                      NONE, FALSE, NONE, NONE))
    /\ pc' = "stacks_wait"
    /\ UNCHANGED <<argv, env, remove, parameters, exitCode, token, endpoint_id,
                   swarm_id, stacks, listing, log, stderr, srv, run, prev>>

\* Variant: a listing answered with an error status is asked for again.
get_stacks_ret_Retry ==
    /\ pc = "stacks_wait"
    /\ \E r \in Responses :
          /\ calls' = IF r.body = "json" /\ ~IsErrorAnswer(r)
                       THEN AnsweredWith(r, NONE, Len(srv)) ELSE Answered(r)
          /\ IF raise_for_status(r.status)
             THEN /\ pc' = "get_stacks"
                  /\ UNCHANGED <<exitCode, stderr, stacks, listing>>
             ELSE IF json_fails(r)
             THEN Uncaught("JSONDecodeError", 0) /\ UNCHANGED <<stacks, listing>>
             ELSE /\ listing' = srv
                  /\ stacks' = StackDict(srv)
                  /\ pc' = "dispatch"
                  /\ UNCHANGED <<exitCode, stderr>>
    /\ UNCHANGED <<argv, env, remove, parameters, token, endpoint_id, swarm_id,
                   log, srv, run, prev>>

get_stacks_ret ==
    /\ pc = "stacks_wait"
    /\ \E r \in Responses :
          /\ calls' = IF r.body = "json" /\ ~IsErrorAnswer(r)
                       THEN AnsweredWith(r, NONE, Len(srv)) ELSE Answered(r)
          /\ IF raise_for_status(r.status)
             THEN Uncaught("HTTPError", r.status) /\ UNCHANGED <<stacks, listing>>
             ELSE IF json_fails(r)
             THEN Uncaught("JSONDecodeError", 0) /\ UNCHANGED <<stacks, listing>>
             ELSE /\ listing' = srv
                  /\ stacks' = StackDict(srv)
                  /\ pc' = "dispatch"
                  /\ UNCHANGED <<exitCode, stderr>>
    /\ UNCHANGED <<argv, env, remove, parameters, token, endpoint_id, swarm_id,
                   log, srv, run, prev>>

-----------------------------------------------------------------------------
(* The three operations *)

deploy_dispatch ==
    /\ pc = "dispatch"
    /\ pc' = Branch(remove, stack_name, stacks)
    /\ UNCHANGED <<argv, env, remove, parameters, exitCode, token, endpoint_id,
                   swarm_id, stacks, listing, calls, log, stderr, srv, run, prev>>

remove_stack ==
    /\ pc = "remove_stack"
    /\ IF stack_name \in DOMAIN stacks
       THEN /\ log' = Append(log, LogRec("INFO", "Removing stack", stack_name, NONE))
            /\ calls' = Append(calls, DeleteRequest(token, stacks[stack_name],
                                                    endpoint_id))
            /\ pc' = "delete_wait"
            /\ UNCHANGED exitCode
       ELSE /\ log' = Append(log, LogRec("CRITICAL", "is not deployed! (can't be removed)", stack_name, NONE))
            /\ Exit(NotDeployedExit)
            /\ UNCHANGED calls
    /\ UNCHANGED <<argv, env, remove, parameters, token, endpoint_id, swarm_id,
                   stacks, listing, stderr, srv, run, prev>>

remove_stack_ret ==
    /\ pc = "delete_wait"
    /\ \E r \in Responses :
          /\ calls' = Answered(r)
          /\ srv' = ServerApply(srv, LastCall, r.status)
          /\ IF raise_for_status(r.status)
             THEN Uncaught("HTTPError", r.status) /\ UNCHANGED log
             ELSE /\ log' = Append(log, LogRec("INFO", "was successfully removed!", stack_name, NONE))
                  /\ Exit(0)
                  /\ UNCHANGED stderr
    /\ UNCHANGED <<argv, env, remove, parameters, token, endpoint_id, swarm_id,
                   stacks, listing, run, prev>>

update_stack ==
    /\ pc = "update_stack"
    /\ log' = Append(log, LogRec("INFO", "Updating stack", stack_name, NONE))
    /\ calls' = Append(calls, UpdateRequest(token, stacks[stack_name],
                                            endpoint_id, swarm_id))
    /\ pc' = "update_wait"
    /\ UNCHANGED <<argv, env, remove, parameters, exitCode, token, endpoint_id,
                   swarm_id, stacks, listing, stderr, srv, run, prev>>

update_stack_ret ==
    /\ pc = "update_wait"
    /\ \E r \in Responses :
          /\ calls' = Answered(r)
          /\ srv' = ServerApply(srv, LastCall, r.status)
          /\ IF json_fails(r)
             THEN \* self.log.info(response.json()) comes before raise_for_status()
                  Uncaught("JSONDecodeError", 0) /\ UNCHANGED log
             ELSE IF raise_for_status(r.status)
             THEN /\ log' = Append(log, LogRec("INFO", "response.json()", NONE, r.body))
                  /\ Uncaught("HTTPError", r.status)
             ELSE /\ log' = log \o << LogRec("INFO", "response.json()", NONE, r.body),
                                     LogRec("INFO", "was successfully updated!", stack_name, NONE) >>
                  /\ pc' = AfterUpdate
                  /\ UNCHANGED <<exitCode, stderr>>
    /\ UNCHANGED <<argv, env, remove, parameters, token, endpoint_id, swarm_id,
                   stacks, listing, run, prev>>

create_stack ==
    /\ pc = "create_stack"
    /\ log' = Append(log, LogRec("INFO", "Creating stack", stack_name, NONE))
    /\ calls' = Append(calls, CreateRequest(token, endpoint_id, swarm_id))
    /\ pc' = "create_wait"
    /\ UNCHANGED <<argv, env, remove, parameters, exitCode, token, endpoint_id,
                   swarm_id, stacks, listing, stderr, srv, run, prev>>

create_stack_ret ==
    /\ pc = "create_wait"
    /\ \E r \in Responses :
          /\ calls' = Answered(r)
          /\ srv' = ServerApply(srv, LastCall, r.status)
          /\ IF json_fails(r)
             THEN Uncaught("JSONDecodeError", 0) /\ UNCHANGED log
             ELSE IF raise_for_status(r.status)
             THEN /\ log' = Append(log, LogRec("INFO", "response.json()", NONE, r.body))
                  /\ Uncaught("HTTPError", r.status)
             ELSE /\ log' = log \o << LogRec("INFO", "response.json()", NONE, r.body),
                                     LogRec("INFO", "was successfully created!", stack_name, NONE) >>
                  /\ pc' = AfterCreate
                  /\ UNCHANGED <<exitCode, stderr>>
    /\ UNCHANGED <<argv, env, remove, parameters, token, endpoint_id, swarm_id,
                   stacks, listing, run, prev>>

deploy_completed ==
    /\ pc = "completed"
    /\ log' = Append(log, LogRec("INFO", "Swarm deployment process completed!", NONE, NONE))
    /\ Exit(0)
    /\ UNCHANGED <<argv, env, remove, parameters, token, endpoint_id, swarm_id,
                   stacks, listing, calls, stderr, srv, run, prev>>

-----------------------------------------------------------------------------
(* The process is started again: same environment, same server *)

MutatingCalls(cs) == SelectSeq(cs, IsMutating)

Summary ==
    LET m == MutatingCalls(calls)
    IN IF m = <<>>
       THEN [remove |-> remove, exitCode |-> exitCode, kind |-> "none",
             id |-> 0, status |-> 0]
       ELSE [remove |-> remove, exitCode |-> exitCode, kind |-> m[1].kind,
             id |-> m[1].id, status |-> m[1].status]

NewRun ==
    /\ pc = "exit"
    /\ run < MaxRuns
    /\ run' = run + 1
    /\ prev' = Summary
    /\ argv' \in Argvs
    /\ remove' = FALSE
    /\ parameters' = AllParameters
    /\ pc' = "deploy"
    /\ exitCode' = -1
    /\ token' = NONE
    /\ endpoint_id' = 0
    /\ swarm_id' = NONE
    /\ stacks' = EmptyDict
    /\ listing' = <<>>
    /\ calls' = <<>>
    /\ log' = <<>>
    /\ stderr' = <<>>
    /\ UNCHANGED <<env, srv>>

Next ==
    \/ deploy_start
    \/ validate_environment
    \/ get_portainer_token
    \/ get_portainer_token_ret
    \/ get_endpoint_id
    \/ get_endpoint_id_ret
    \/ get_swarm_id
    \/ get_swarm_id_ret
    \/ get_stacks
    \/ get_stacks_ret
    \/ deploy_dispatch
    \/ remove_stack
    \/ remove_stack_ret
    \/ update_stack
    \/ update_stack_ret
    \/ create_stack
    \/ create_stack_ret
    \/ deploy_completed
    \/ NewRun

Spec == Init /\ [][Next]_vars

\* The steps of a run: every step of Next but the start of another run
Step == Next /\ run' = run

\* A run keeps executing and every call it issued returns: no step of a run
\* stays enabled for ever without being taken
FairSpec == Spec /\ WF_vars(Step)

-----------------------------------------------------------------------------
(* Vocabulary of the properties *)

NoArgument == argv = <<SCRIPT>>
RemoveRequested == argv = <<SCRIPT, "--remove">>
ArgvValid == NoArgument \/ RemoveRequested

Exited == pc = "exit"

\* The variables a run must find set: all five, the content excepted when
\* removal is requested
RequiredSettings ==
    IF RemoveRequested THEN AllParameters \ {"COMPOSE_CONTENT"} ELSE AllParameters

SomeRequiredUnset == \E v \in RequiredSettings : env[v] = NONE

OnlyContentUnset ==
    /\ env["COMPOSE_CONTENT"] = NONE
    /\ \A v \in AllParameters \ {"COMPOSE_CONTENT"} : env[v] # NONE

IsErrorStatus(status) == status >= 400

EnvMessages ==
    { k \in DOMAIN log : log[k].msg = "must be set as an environment variable!" }

UsageMessages ==
    { k \in DOMAIN log : log[k].msg = "Only the '--remove' argument is allowed" }

CallsOfKind(kinds) == { i \in DOMAIN calls : calls[i].kind \in kinds }

\* The stack listing call was answered with a list
Listed == \E i \in CallsOfKind({"stacks"}) : calls[i].items >= 0

ListedNames == { listing[i].Name : i \in DOMAIN listing }

ListedId(name) == (CHOOSE st \in { listing[i] : i \in DOMAIN listing } : st.Name = name).Id

SrvSet == { srv[i] : i \in DOMAIN srv }

\* The previous run was not a remove run and its update call was answered
\* with a success status
PrevUpdated == ~prev.remove /\ prev.kind = "update" /\ IsSuccess(prev.status)

NamePresent == Listed /\ stack_name \in ListedNames
NameAbsent == Listed /\ stack_name \notin ListedNames

-----------------------------------------------------------------------------
(* Properties *)

\* C1: a run with a valid command line and a required variable unset never
\* issues an HTTP call and exits non-zero; in remove mode, COMPOSE_CONTENT
\* being the only unset variable does not keep the run from the
\* authentication call: such a run never exits before get_portainer_token()
\* has announced the call, and, the URL being one a request can be sent to,
\* before the call has been issued.
C1_MissingSettingNoCall ==
    /\ (ArgvValid /\ SomeRequiredUnset) =>
            /\ calls = <<>>
            /\ Exited => exitCode \notin {0, -1}
    /\ (RemoveRequested /\ OnlyContentUnset /\ Exited) =>
            /\ \E k \in DOMAIN log : log[k].msg = "Getting JWT token..."
            /\ env["PORTAINER_URL"] = "https://portainer" =>
                    (calls # <<>> /\ calls[1].kind = "auth")

\* C1 witness: a non-remove run whose only unset variable is COMPOSE_CONTENT
\* has exited with code 1 after reporting it, without any call.
C1_Witness ==
    /\ NoArgument /\ OnlyContentUnset
    /\ Exited /\ exitCode = 1
    /\ calls = <<>>
    /\ \E k \in EnvMessages : log[k].var = "COMPOSE_CONTENT"

\* C2: with any command line other than no argument or exactly --remove, the
\* run never reaches environment validation, never issues an HTTP call, and
\* exits non-zero having reported the usage error and no missing variable.
C2_UsageErrorFirst ==
    ~ArgvValid =>
        /\ pc \in {"deploy", "exit"}
        /\ calls = <<>>
        /\ EnvMessages = {}
        /\ parameters = AllParameters
        /\ Exited => (exitCode \notin {0, -1} /\ UsageMessages # {})

\* C2 witness: a run with the argument --delete and PORTAINER_URL unset has
\* exited with the usage error.
C2_Witness ==
    /\ argv = <<SCRIPT, "--delete">>
    /\ env["PORTAINER_URL"] = NONE
    /\ Exited /\ exitCode = 1
    /\ UsageMessages # {}

\* C3: a call answered with an error status is the last call of its run, and
\* the run has then exited non-zero.
C3_ErrorStatusAborts ==
    \A i \in DOMAIN calls :
        IsErrorStatus(calls[i].status) =>
            /\ i = Len(calls)
            /\ Exited
            /\ exitCode \notin {0, -1}

\* C3 witness: the authentication call was answered 404 and nothing followed.
C3_Witness ==
    /\ Len(calls) = 1
    /\ calls[1].kind = "auth"
    /\ calls[1].status = 404
    /\ Exited /\ exitCode = 1

\* C4: in remove mode, once the listing does not hold the stack name, no
\* delete call is issued and the run exits non-zero.
C4_RemoveAbsentFails ==
    (RemoveRequested /\ NameAbsent) =>
        /\ CallsOfKind({"delete"}) = {}
        /\ Exited => exitCode \notin {0, -1}

\* C4 witness: a remove run for "web" against a listing holding only "db"
\* has exited 1 after the four read calls.
C4_Witness ==
    /\ RemoveRequested /\ NameAbsent
    /\ stack_name = "web" /\ ListedNames = {"db"}
    /\ Exited /\ exitCode = 1
    /\ Len(calls) = 4

\* C5: in remove mode with the stack name in the listing, at most one delete
\* call is issued, it names the listed id of that stack and the endpoint id
\* resolved in this run; when the run has exited, exactly one was issued, and
\* the exit code is 0 if it was answered with a success status.
C5_RemovePresentDeletesOnce ==
    (RemoveRequested /\ NamePresent) =>
        LET dels == CallsOfKind({"delete"})
        IN /\ Cardinality(dels) <= 1
           /\ \A i \in dels :
                /\ calls[i].id = ListedId(stack_name)
                /\ calls[i].endpoint = endpoint_id
                /\ endpoint_id \in {1, 2}
           /\ Exited =>
                /\ Cardinality(dels) = 1
                /\ \A i \in dels : IsSuccess(calls[i].status) => exitCode = 0

\* C5 witness: the delete of stack "web" (id 2) on endpoint 1 was answered
\* 204 and the run exited 0.
C5_Witness ==
    /\ RemoveRequested /\ NamePresent
    /\ Exited /\ exitCode = 0
    /\ \E i \in CallsOfKind({"delete"}) :
          calls[i].id = 2 /\ calls[i].endpoint = 1 /\ calls[i].status = 204

\* C6: not in remove mode with the stack name in the listing, at most one
\* update call is issued, it names the listed id and carries the configured
\* content, the swarm id resolved in this run and Prune = true; when the run
\* has exited, exactly one was issued.
C6_PresentUpdatesOnce ==
    (NoArgument /\ NamePresent) =>
        LET ups == CallsOfKind({"update"})
        IN /\ Cardinality(ups) <= 1
           /\ \A i \in ups :
                /\ calls[i].id = ListedId(stack_name)
                /\ calls[i].content = env["COMPOSE_CONTENT"]
                /\ calls[i].swarm = swarm_id
                /\ swarm_id = SwarmOf(endpoint_id)
                /\ calls[i].prune = TRUE
           /\ Exited => Cardinality(ups) = 1

\* C6 witness: an update of the listed stack has been answered and the run
\* has exited 0.
C6_Witness ==
    /\ NoArgument /\ NamePresent
    /\ Exited /\ exitCode = 0
    /\ \E i \in CallsOfKind({"update"}) :
          calls[i].status = 200 /\ calls[i].swarm = "swarm-2" /\ calls[i].prune

\* C7: not in remove mode with the stack name absent from the listing, at most
\* one create call is issued, it carries the configured name and content and
\* the swarm id resolved in this run, the run issues no delete and no update
\* call, and when it has exited exactly one create call was issued.
C7_AbsentCreatesOnce ==
    (NoArgument /\ NameAbsent) =>
        LET crs == CallsOfKind({"create"})
        IN /\ Cardinality(crs) <= 1
           /\ \A i \in crs :
                /\ calls[i].name = env["STACK_NAME"]
                /\ calls[i].content = env["COMPOSE_CONTENT"]
                /\ calls[i].swarm = swarm_id
                /\ swarm_id = SwarmOf(endpoint_id)
           /\ CallsOfKind({"delete", "update"}) = {}
           /\ Exited => Cardinality(crs) = 1

\* C7 witness: the stack "web" was created on a server that held only "db",
\* and the run exited 0.
C7_Witness ==
    /\ NoArgument /\ NameAbsent
    /\ stack_name = "web" /\ ListedNames = {"db"}
    /\ Exited /\ exitCode = 0
    /\ \E i \in CallsOfKind({"create"}) : calls[i].status = 200

\* C8: an update answered with a success status leaves the stack on the
\* server under the id the update named; and a non-remove run that follows a
\* run with a successful update (same name, same content) finds the stack
\* under that id, issues no create and no delete, addresses its update to the
\* same id with the same content, and has issued exactly one update when it
\* exits after a listing.
C8_UpdateTwice ==
    /\ \A i \in CallsOfKind({"update"}) :
          IsSuccess(calls[i].status) =>
              [Name |-> stack_name, Id |-> calls[i].id] \in SrvSet
    /\ (PrevUpdated /\ NoArgument) =>
          /\ [Name |-> stack_name, Id |-> prev.id] \in SrvSet
          /\ CallsOfKind({"create", "delete"}) = {}
          /\ \A i \in CallsOfKind({"update"}) :
                /\ calls[i].id = prev.id
                /\ calls[i].content = env["COMPOSE_CONTENT"]
          /\ (Exited /\ Listed) => Cardinality(CallsOfKind({"update"})) = 1

\* C8 witness: the second of two non-remove runs has exited 0 after an update
\* answered 200, addressed to the id the first run's successful update named.
C8_Witness ==
    /\ run = 2 /\ PrevUpdated /\ NoArgument
    /\ Exited /\ exitCode = 0
    /\ \E i \in CallsOfKind({"update"}) :
          /\ calls[i].status = 200
          /\ calls[i].id = prev.id
          /\ [Name |-> stack_name, Id |-> prev.id] \in SrvSet

\* C9: a run issues at most one create, update or delete call.
C9_AtMostOneMutatingCall ==
    Cardinality(CallsOfKind(Mutating)) <= 1

\* C9 witness: a run has exited after its four read calls and one mutating call.
C9_Witness ==
    /\ Exited
    /\ Len(calls) = 5
    /\ Cardinality(CallsOfKind(Mutating)) = 1

\* C10: when a call was answered with an error status (4xx or 5xx, non-success
\* under every reading) and the run has exited, the exit code is non-zero and
\* some record of the log holds that status and that response body.
C10_FailureLoggedWithStatusAndBody ==
    \A i \in DOMAIN calls :
        (Exited /\ IsErrorStatus(calls[i].status)) =>
            /\ exitCode \notin {0, -1}
            /\ \E k \in DOMAIN log :
                  /\ log[k].status = calls[i].status
                  /\ log[k].body = calls[i].body

-----------------------------------------------------------------------------
(* Reporting *)

UnsetRequired == { v \in RequiredSettings : env[v] = NONE }

EmptyRequired == { v \in RequiredSettings : env[v] = "" }

\* C11: a run with a valid command line and two or more required variables
\* unset has, when it exits, a non-zero exit code and one critical message
\* for each of the unset variables.
C11_EachMissingReported ==
    (ArgvValid /\ Cardinality(UnsetRequired) >= 2 /\ Exited) =>
        /\ exitCode \notin {0, -1}
        /\ \A v \in UnsetRequired : \E k \in EnvMessages : log[k].var = v

\* C12: a run with a valid command line and a required variable set to the
\* empty string issues no HTTP call and exits non-zero.
C12_EmptyRejected ==
    (ArgvValid /\ EmptyRequired # {}) =>
        /\ calls = <<>>
        /\ Exited => exitCode \notin {0, -1}

LogIndex(msgs) == { k \in DOMAIN log : log[k].msg \in msgs }

OutcomeMessages == { "was successfully created!", "was successfully updated!",
                     "was successfully removed!" }

\* C13: a run that has exited 0 has logged, in this order, the start of the
\* process, the token acquisition, the outcome of its create, update or
\* remove call, and the completion of the process.
C13_PhasesLogged ==
    (Exited /\ exitCode = 0) =>
        \E a \in LogIndex({"Swarm deployment process started..."}),
           b \in LogIndex({"Getting JWT token..."}),
           c \in LogIndex(OutcomeMessages),
           d \in LogIndex({"Swarm deployment process completed!"}) :
              a < b /\ b < c /\ c < d

-----------------------------------------------------------------------------
(* Order of the calls *)

CallOrder == << {"auth"}, {"endpoints"}, {"swarm"}, {"stacks"}, Mutating >>

\* The call returned to deploy(): it was answered, not with an error status
Returned(c) == c.status # 0 /\ ~IsErrorStatus(c.status)

\* Removed, Updated, Created or Failed
Terminal == pc \in {"completed", "exit"}

C15_OneTokenPerRun ==
    /\ Cardinality(CallsOfKind({"auth"})) <= 1
    /\ \A i \in DOMAIN calls :
          IF calls[i].kind = "auth"
          THEN i = 1 /\ calls[i].token = NONE
          ELSE /\ calls[1].kind = "auth"
               /\ calls[1].jwt \in Tokens
               /\ calls[i].token = calls[1].jwt

\* C15 witness: a delete call carries the token "jwtB" of the authentication
\* answer, as the three read calls before it did.
C15_Witness ==
    /\ Len(calls) = 5
    /\ calls[1].jwt = "jwtB"
    /\ calls[5].kind = "delete"
    /\ \A i \in 2..5 : calls[i].token = "jwtB"

\* C16: a run started with --remove issues no create and no update call, a
\* run started without argument issues no delete call.
C16_ModeFixesCall ==
    /\ RemoveRequested => CallsOfKind({"create", "update"}) = {}
    /\ NoArgument => CallsOfKind({"delete"}) = {}
    /\ ~ArgvValid => CallsOfKind(Mutating) = {}

\* C16 witness: a remove run for a stack the listing does not hold has exited
\* without a mutating call, on a server where a non-remove run would create.
C16_Witness ==
    /\ RemoveRequested /\ NameAbsent
    /\ Exited
    /\ CallsOfKind(Mutating) = {}
    /\ remove

-----------------------------------------------------------------------------
(* Outcome *)

\* C17: a run that has exited 0 issued exactly one mutating call and that
\* call was answered with a success status (2xx); and the log of a run whose
\* mutating call was answered with an error status holds no "successfully
\* created/updated/removed" message.
C17_ExitZeroMeansSuccess ==
    /\ (Exited /\ exitCode = 0) =>
          /\ Cardinality(CallsOfKind(Mutating)) = 1
          /\ \A i \in CallsOfKind(Mutating) : IsSuccess(calls[i].status)
    /\ \A i \in CallsOfKind(Mutating) :
          IsErrorStatus(calls[i].status) => LogIndex(OutcomeMessages) = {}

\* C18: when the list of endpoints was answered with an empty array, that
\* call is the last of the run (no swarm, stack listing or mutating call) and
\* the run has exited non-zero.
C18_NoEndpointFails ==
    \A i \in CallsOfKind({"endpoints"}) :
        calls[i].items = 0 =>
            /\ i = Len(calls)
            /\ CallsOfKind({"swarm", "stacks"} \cup Mutating) = {}
            /\ Exited
            /\ exitCode \notin {0, -1}

\* C18 witness: the endpoints call was answered 200 with an empty array and
\* the run ended with an IndexError.
C18_Witness ==
    /\ Len(calls) = 2
    /\ calls[2].kind = "endpoints" /\ calls[2].status = 200 /\ calls[2].items = 0
    /\ Exited /\ exitCode = 1
    /\ \E k \in DOMAIN stderr : stderr[k].exc = "IndexError"

-----------------------------------------------------------------------------
(* Sequences of runs *)

\* The stacks of the server that carry the configured name
SrvNamed == { i \in DOMAIN srv : srv[i].Name = stack_name }

\* The previous run exited 0
PrevSucceeded == prev.exitCode = 0

\* C19: over sequential runs for one stack name, (a) a create call is in
\* flight only while the server holds no stack of that name, and the server
\* never holds two stacks of that name; (b) the non-remove run that follows a
\* non-remove run which exited 0 issues no create call, and the mutating call
\* it issues is an update; (c) the remove run that follows a remove run which
\* exited 0 issues no delete call and, once exited, has exited non-zero.
C19_SequentialRuns ==
    /\ \A i \in CallsOfKind({"create"}) : calls[i].status = 0 => SrvNamed = {}
    /\ Cardinality(SrvNamed) <= 1
    /\ (PrevSucceeded /\ ~prev.remove /\ NoArgument) =>
          \A i \in CallsOfKind(Mutating) : calls[i].kind = "update"
    /\ (PrevSucceeded /\ prev.remove /\ RemoveRequested) =>
          /\ CallsOfKind({"delete"}) = {}
          /\ Exited => exitCode \notin {0, -1}

-----------------------------------------------------------------------------
(* Termination *)

\* C20: every call returning, a run that has not exited eventually exits
\* (whatever the state, the process is later found exited: a run that
\* started never stays unexited for ever); and no call is issued again: a call
\* answered with an error status is the last call of its run, and a run
\* issues no two calls of one kind.
C20_RunTerminates ==
    /\ []<>(pc = "exit")
    /\ [](\A i \in DOMAIN calls : IsErrorStatus(calls[i].status) => i = Len(calls))
    /\ [](\A i, j \in DOMAIN calls : calls[i].kind = calls[j].kind => i = j)

\* C20 witness: the second run has exited non-zero after its stack listing
\* was answered with an error status, and no call followed.
C20_Witness ==
    /\ run = 2 /\ Exited /\ exitCode = 1
    /\ Len(calls) = 4
    /\ LastCall.kind = "stacks" /\ LastCall.status = 500

====
